---- MODULE Spec2Model ----
(***************************************************************************)
(* The error-handler chain of app/src/lib/dispatcher/error-handlers.ts:    *)
(* the four handler units, the classification casts they use, and the      *)
(* dispatcher loop that feeds a raised error through an ordered list of    *)
(* units until one of them returns null.                                    *)
(***************************************************************************)
EXTENDS Integers, Sequences, FiniteSets, TLC

(* ------------------------------------------------------------------ *)
(* Bounds                                                              *)
(* ------------------------------------------------------------------ *)

\* Longest list of units registered in front of the terminal handler.
MaxPrefix == 3

\* Number of dispatch runs that may be in flight at once.
NumRuns == 2

Runs == 1..NumRuns

\* Repositories known to the store.
Repos == {"repoA", "repoB"}

(* ------------------------------------------------------------------ *)
(* Errors                                                              *)
(* ------------------------------------------------------------------ *)

\* The null a cast or a handler returns.
Null == [class |-> "null"]

\* dugite's code for "the repository path does not exist", and the other
\* shapes the `code` property of an error can take.
RepositoryDoesNotExistErrorCode == "repository-does-not-exist"
NoCode == "undefined"
EmptyCode == ""
OtherCode == "ENOENT"

\* Values of result.gitError: absent, or a member of dugite's GitError enum.
NoGitError == "no-git-error"
NotAGitRepository == "NotAGitRepository"
HTTPSAuthenticationFailed == "HTTPSAuthenticationFailed"
SSHAuthenticationFailed == "SSHAuthenticationFailed"
MergeConflicts == "MergeConflicts"

AuthenticationErrors == {HTTPSAuthenticationFailed, SSHAuthenticationFailed}

\* A plain Error, possibly carrying a code.
PlainErrors ==
    [class : {"Error"},
     code : {NoCode, EmptyCode, RepositoryDoesNotExistErrorCode, OtherCode}]

\* A GitError: carries result.gitError; `code` is probed on it like on any
\* other error.
GitErrors ==
    [class : {"GitError"},
     code : {NoCode, RepositoryDoesNotExistErrorCode},
     gitError : {NoGitError, NotAGitRepository, HTTPSAuthenticationFailed,
                 MergeConflicts}]

\* The shapes of error an ErrorWithMetadata wraps in this model.
InnerErrors ==
    { [class |-> "Error", code |-> NoCode],
      [class |-> "Error", code |-> RepositoryDoesNotExistErrorCode],
      [class |-> "GitError", code |-> NoCode, gitError |-> NotAGitRepository],
      [class |-> "GitError", code |-> NoCode,
       gitError |-> HTTPSAuthenticationFailed] }

\* An ErrorWithMetadata: the wrapped error plus metadata.backgroundTask.
MetadataErrors ==
    [class : {"ErrorWithMetadata"},
     code : {NoCode, RepositoryDoesNotExistErrorCode},
     backgroundTask : BOOLEAN,
     underlyingError : InnerErrors]

Errors == PlainErrors \cup GitErrors \cup MetadataErrors

\* if (e.code): undefined and the empty string are falsy.
asErrorWithCode(error) ==
    IF error.code # NoCode /\ error.code # EmptyCode THEN error ELSE Null

\* error instanceof ErrorWithMetadata
asErrorWithMetadata(error) ==
    IF error.class = "ErrorWithMetadata" THEN error ELSE Null

\* error instanceof GitError
asGitError(error) ==
    IF error.class = "GitError" THEN error ELSE Null

(* ------------------------------------------------------------------ *)
(* Store                                                               *)
(* ------------------------------------------------------------------ *)

NoSelection == [type |-> "none"]

\* The selection kinds that carry a repository, and one that does not.
SelectionStates ==
    {NoSelection, [type |-> "CloningRepository"]}
        \cup [type : {"Repository", "MissingRepository"}, repository : Repos]

(* ------------------------------------------------------------------ *)
(* Handler units                                                       *)
(* ------------------------------------------------------------------ *)

Units == {"missingRepository", "backgroundTask", "gitAuthentication", "default"}

NoRepo == "no-repository"

\* The handler with the code test left out of its predicate.
MissingRepositoryHandlerGitOnly(error, selectedState, missing) ==
    IF selectedState = NoSelection
    THEN [result |-> error, update |-> NoRepo]
    ELSE IF selectedState.type # "MissingRepository"
            /\ selectedState.type # "Repository"
    THEN [result |-> error, update |-> NoRepo]
    ELSE IF missing[selectedState.repository]
    THEN [result |-> Null, update |-> NoRepo]
    ELSE IF asGitError(error) # Null /\ error.gitError = NotAGitRepository
    THEN [result |-> Null, update |-> selectedState.repository]
    ELSE [result |-> error, update |-> NoRepo]

\* The handler without its early return for a repository already missing.
MissingRepositoryHandlerNoFlagCheck(error, selectedState, missing) ==
    IF selectedState = NoSelection
    THEN [result |-> error, update |-> NoRepo]
    ELSE IF selectedState.type # "MissingRepository"
            /\ selectedState.type # "Repository"
    THEN [result |-> error, update |-> NoRepo]
    ELSE IF \/ asGitError(error) # Null /\ error.gitError = NotAGitRepository
            \/ asErrorWithCode(error) # Null
               /\ error.code = RepositoryDoesNotExistErrorCode
    THEN [result |-> Null, update |-> selectedState.repository]
    ELSE [result |-> error, update |-> NoRepo]

\* The handler returning null where it has no repository to look at.
MissingRepositoryHandlerDropsUnselected(error, selectedState, missing) ==
    IF selectedState = NoSelection
    THEN [result |-> Null, update |-> NoRepo]
    ELSE IF selectedState.type # "MissingRepository"
            /\ selectedState.type # "Repository"
    THEN [result |-> Null, update |-> NoRepo]
    ELSE IF missing[selectedState.repository]
    THEN [result |-> Null, update |-> NoRepo]
    ELSE IF \/ asGitError(error) # Null /\ error.gitError = NotAGitRepository
            \/ asErrorWithCode(error) # Null
               /\ error.code = RepositoryDoesNotExistErrorCode
    THEN [result |-> Null, update |-> selectedState.repository]
    ELSE [result |-> error, update |-> NoRepo]

\* The handler taking any code at all for the does-not-exist code.
MissingRepositoryHandlerAnyCode(error, selectedState, missing) ==
    IF selectedState = NoSelection
    THEN [result |-> error, update |-> NoRepo]
    ELSE IF selectedState.type # "MissingRepository"
            /\ selectedState.type # "Repository"
    THEN [result |-> error, update |-> NoRepo]
    ELSE IF missing[selectedState.repository]
    THEN [result |-> Null, update |-> NoRepo]
    ELSE IF \/ asGitError(error) # Null /\ error.gitError = NotAGitRepository
            \/ asErrorWithCode(error) # Null
    THEN [result |-> Null, update |-> selectedState.repository]
    ELSE [result |-> error, update |-> NoRepo]

\* The handler going on to the next unit after marking the repository.
MissingRepositoryHandlerFallsThrough(error, selectedState, missing) ==
    IF selectedState = NoSelection
    THEN [result |-> error, update |-> NoRepo]
    ELSE IF selectedState.type # "MissingRepository"
            /\ selectedState.type # "Repository"
    THEN [result |-> error, update |-> NoRepo]
    ELSE IF missing[selectedState.repository]
    THEN [result |-> Null, update |-> NoRepo]
    ELSE IF \/ asGitError(error) # Null /\ error.gitError = NotAGitRepository
            \/ asErrorWithCode(error) # Null
               /\ error.code = RepositoryDoesNotExistErrorCode
    THEN [result |-> error, update |-> selectedState.repository]
    ELSE [result |-> error, update |-> NoRepo]

\* The handler deciding "already missing" by the selection kind.
MissingRepositoryHandlerByKind(error, selectedState, missing) ==
    IF selectedState = NoSelection
    THEN [result |-> error, update |-> NoRepo]
    ELSE IF selectedState.type # "MissingRepository"
            /\ selectedState.type # "Repository"
    THEN [result |-> error, update |-> NoRepo]
    ELSE IF selectedState.type = "MissingRepository"
    THEN [result |-> Null, update |-> NoRepo]
    ELSE IF \/ asGitError(error) # Null /\ error.gitError = NotAGitRepository
            \/ asErrorWithCode(error) # Null
               /\ error.code = RepositoryDoesNotExistErrorCode
    THEN [result |-> Null, update |-> selectedState.repository]
    ELSE [result |-> error, update |-> NoRepo]

\* What one invocation of the missing-repository handler decides from the
\* error and the store state it reads: the value it returns, and the
\* repository it passes to updateRepositoryMissing(.., true) before
\* returning (NoRepo when it makes no such call).
MissingRepositoryHandler(error, selectedState, missing) ==
    IF selectedState = NoSelection
    THEN [result |-> error, update |-> NoRepo]
    ELSE IF selectedState.type # "MissingRepository"
            /\ selectedState.type # "Repository"
    THEN [result |-> error, update |-> NoRepo]
    ELSE IF missing[selectedState.repository]
    THEN [result |-> Null, update |-> NoRepo]
    ELSE LET errorWithCode == asErrorWithCode(error)
             gitError == asGitError(error)
             isMissing ==
                 \/ gitError # Null /\ gitError.gitError = NotAGitRepository
                 \/ errorWithCode # Null
                    /\ errorWithCode.code = RepositoryDoesNotExistErrorCode
         IN  IF isMissing
             THEN [result |-> Null, update |-> selectedState.repository]
             ELSE [result |-> error, update |-> NoRepo]

\* backgroundTaskHandler passing every error on.
backgroundTaskHandlerNeverSuppresses(error) == error

\* backgroundTaskHandler suppressing on the opposite flag value.
backgroundTaskHandlerInverted(error) ==
    LET e == asErrorWithMetadata(error)
    IN  IF e = Null THEN error
        ELSE IF ~e.backgroundTask THEN Null
        ELSE error

\* backgroundTaskHandler passing on the wrapped error instead of the wrapper.
backgroundTaskHandlerUnwraps(error) ==
    LET e == asErrorWithMetadata(error)
    IN  IF e = Null THEN error
        ELSE IF e.backgroundTask THEN Null
        ELSE e.underlyingError

\* The value backgroundTaskHandler returns.
backgroundTaskHandler(error) ==
    LET e == asErrorWithMetadata(error)
    IN  IF e = Null THEN error
        ELSE IF e.backgroundTask THEN Null
        ELSE error

\* gitAuthenticationErrorHandler treating an authentication error as handled.
gitAuthenticationErrorHandlerResolves(error) ==
    LET gitError == asGitError(error)
    IN  IF gitError = Null
        THEN [result |-> error, logged |-> FALSE]
        ELSE IF gitError.gitError = NoGitError
        THEN [result |-> error, logged |-> FALSE]
        ELSE IF gitError.gitError \notin AuthenticationErrors
        THEN [result |-> error, logged |-> FALSE]
        ELSE [result |-> Null, logged |-> TRUE]

\* What one invocation of gitAuthenticationErrorHandler does: the value it
\* returns, and whether it reaches its console.log line on the way.
gitAuthenticationErrorHandler(error) ==
    LET gitError == asGitError(error)
    IN  IF gitError = Null
        THEN [result |-> error, logged |-> FALSE]
        ELSE IF gitError.gitError = NoGitError
        THEN [result |-> error, logged |-> FALSE]
        ELSE IF gitError.gitError \notin AuthenticationErrors
        THEN [result |-> error, logged |-> FALSE]
        ELSE [result |-> error, logged |-> TRUE]

\* defaultErrorHandler returning null without presenting.
defaultErrorHandlerSilent(error) == [present |-> <<>>, result |-> Null]

\* What one invocation of defaultErrorHandler does: the errors it hands to
\* dispatcher.presentError, in order, and the value it returns after them.
defaultErrorHandler(error) == [present |-> <<error>>, result |-> Null]

(* ------------------------------------------------------------------ *)
(* Chains                                                              *)
(* ------------------------------------------------------------------ *)

RECURSIVE SeqsUpTo(_, _)
\* All sequences over S of length at most n.
SeqsUpTo(S, n) ==
    IF n = 0 THEN {<<>>}
    ELSE LET shorter == SeqsUpTo(S, n - 1)
         IN  shorter \cup {Append(q, x) : q \in shorter, x \in S}

\* Every chain the dispatcher can be built with: the three classifying units
\* in any order and multiplicity, with defaultErrorHandler registered last.
\* (A chain with defaultErrorHandler further up never gets past it, and so
\* runs exactly as its prefix up to that unit, which is one of these.)
Chains ==
    {Append(q, "default") : q \in SeqsUpTo(Units \ {"default"}, MaxPrefix)}

\* The order the application registers.
DocumentedChain ==
    <<"missingRepository", "backgroundTask", "gitAuthentication", "default">>

\* The documented chain with its first two units swapped.
SwappedChain ==
    <<"backgroundTask", "missingRepository", "gitAuthentication", "default">>

(* ------------------------------------------------------------------ *)
(* State                                                               *)
(* ------------------------------------------------------------------ *)

VARIABLES
    chain,          \* the dispatcher's ordered list of handler units
    live,           \* the runs that may be dispatched
    selectedState,  \* appStore.getState().selectedState
    missing,        \* repository.missing, per repository
    status,         \* per run: where its async control is
    idx,            \* per run: index of the unit running or to run next
    cur,            \* per run: currentError of the dispatcher loop
    pending,        \* per run: what the suspended handler returns on resuming
    raised,         \* per run: the error that was dispatched
    atDispatch,     \* per run: the selection and flag read at dispatch
    calls,          \* per run: dispatcher calls issued by its handlers
    log,            \* per run: the handler invocations that have returned
    console         \* per run: values written by console.log

vars == <<chain, live, selectedState, missing, status, idx, cur, pending,
          raised, atDispatch, calls, log, console>>

store == <<selectedState, missing>>

NoError == [class |-> "no-error"]

\* The call passing false for the flag.
UpdateCallClears(repo) ==
    [op |-> "updateRepositoryMissing", repository |-> repo, missing |-> FALSE]

UpdateCall(repo) ==
    [op |-> "updateRepositoryMissing", repository |-> repo, missing |-> TRUE]

PresentCall(error) == [op |-> "presentError", error |-> error]

\* What a run sees of the store when it is dispatched.
Observed ==
    [selectedState |-> selectedState,
     flagged |-> IF selectedState \in
                       [type : {"Repository", "MissingRepository"},
                        repository : Repos]
                 THEN missing[selectedState.repository]
                 ELSE FALSE]

InitRuns ==
    /\ status = [r \in Runs |-> "idle"]
    /\ idx = [r \in Runs |-> 0]
    /\ cur = [r \in Runs |-> NoError]
    /\ pending = [r \in Runs |-> NoError]
    /\ raised = [r \in Runs |-> NoError]
    /\ atDispatch = [r \in Runs |-> [selectedState |-> NoSelection,
                                      flagged |-> FALSE]]
    /\ calls = [r \in Runs |-> <<>>]
    /\ log = [r \in Runs |-> <<>>]
    /\ console = [r \in Runs |-> <<>>]

InitStore ==
    /\ selectedState \in SelectionStates
    /\ missing \in [Repos -> BOOLEAN]

\* One dispatch at a time, through any chain.
Init ==
    /\ chain \in Chains
    /\ live = {1}
    /\ InitStore
    /\ InitRuns

(* ------------------------------------------------------------------ *)
(* Dispatcher loop                                                     *)
(* ------------------------------------------------------------------ *)

\* The loop treating a null result as "not handled here": it keeps the error
\* it had and goes on to the next unit.
HandlerReturnedIgnoresNull(r, i, in, out) ==
    /\ log' = [log EXCEPT ![r] =
                  Append(@, [unit |-> i, input |-> in, output |-> out])]
    /\ cur' = [cur EXCEPT ![r] = IF out = Null THEN in ELSE out]
    /\ pending' = [pending EXCEPT ![r] = NoError]
    /\ IF i = Len(chain)
       THEN /\ status' = [status EXCEPT ![r] = "done"]
            /\ idx' = [idx EXCEPT ![r] = i]
       ELSE /\ status' = [status EXCEPT ![r] = "ready"]
            /\ idx' = [idx EXCEPT ![r] = i + 1]

\* The loop calling the same unit again for as long as it returns an error.
HandlerReturnedRetries(r, i, in, out) ==
    /\ log' = [log EXCEPT ![r] =
                  Append(@, [unit |-> i, input |-> in, output |-> out])]
    /\ cur' = [cur EXCEPT ![r] = out]
    /\ pending' = [pending EXCEPT ![r] = NoError]
    /\ idx' = [idx EXCEPT ![r] = i]
    /\ status' = [status EXCEPT ![r] = IF out = Null THEN "done" ELSE "ready"]

\* The unit at index i returned `out` for input `in`: the loop stops on null
\* or at the end of the list, and otherwise carries `out` to the next unit.
HandlerReturned(r, i, in, out) ==
    /\ log' = [log EXCEPT ![r] =
                  Append(@, [unit |-> i, input |-> in, output |-> out])]
    /\ cur' = [cur EXCEPT ![r] = out]
    /\ pending' = [pending EXCEPT ![r] = NoError]
    /\ IF out = Null \/ i = Len(chain)
       THEN /\ status' = [status EXCEPT ![r] = "done"]
            /\ idx' = [idx EXCEPT ![r] = i]
       ELSE /\ status' = [status EXCEPT ![r] = "ready"]
            /\ idx' = [idx EXCEPT ![r] = i + 1]

\* The unit issuing `call` without awaiting it: it returns `out` at once.
HandlerDoesNotAwait(r, i, in, call, state, out) ==
    /\ calls' = [calls EXCEPT ![r] = Append(@, call)]
    /\ HandlerReturned(r, i, in, out)

\* The unit at index i suspended at an await after issuing `call`; it will
\* return `out` when the call has settled.
HandlerAwaits(r, i, in, call, state, out) ==
    /\ calls' = [calls EXCEPT ![r] = Append(@, call)]
    /\ pending' = [pending EXCEPT ![r] = out]
    /\ status' = [status EXCEPT ![r] = state]
    /\ idx' = [idx EXCEPT ![r] = i]
    /\ cur' = [cur EXCEPT ![r] = in]
    /\ UNCHANGED log

\* handler(currentError, this) for the unit at index i, up to its first
\* await or its return.
InvokeHandler(r, i, error) ==
    LET unit == chain[i]
    IN  CASE unit = "missingRepository" ->
               LET d == MissingRepositoryHandler(error, selectedState, missing)
               IN  /\ IF d.update # NoRepo
                      THEN HandlerAwaits(r, i, error, UpdateCall(d.update),
                                         "awaitUpdate", d.result)
                      ELSE HandlerReturned(r, i, error, d.result)
                               /\ UNCHANGED calls
                   /\ UNCHANGED console
          [] unit = "backgroundTask" ->
               /\ HandlerReturned(r, i, error, backgroundTaskHandler(error))
               /\ UNCHANGED <<calls, console>>
          [] unit = "gitAuthentication" ->
               LET d == gitAuthenticationErrorHandler(error)
               IN  /\ HandlerReturned(r, i, error, d.result)
                   /\ console' = IF d.logged
                                 THEN [console EXCEPT ![r] =
                                          Append(@, error.gitError)]
                                 ELSE console
                   /\ UNCHANGED calls
          [] unit = "default" ->
               LET d == defaultErrorHandler(error)
               IN  /\ IF d.present # <<>>
                      THEN HandlerAwaits(r, i, error,
                                         PresentCall(d.present[1]),
                                         "awaitPresent", d.result)
                      ELSE HandlerReturned(r, i, error, d.result)
                               /\ UNCHANGED calls
                   /\ UNCHANGED console

\* An error is raised and handed to the dispatcher: unit 0 runs at once.
Dispatch(r, error) ==
    /\ r \in live
    /\ status[r] = "idle"
    /\ raised' = [raised EXCEPT ![r] = error]
    /\ atDispatch' = [atDispatch EXCEPT ![r] = Observed]
    /\ InvokeHandler(r, 1, error)
    /\ UNCHANGED <<chain, live, store>>

\* The loop's await on the previous unit resumes and calls the next unit.
NextHandler(r) ==
    /\ status[r] = "ready"
    /\ InvokeHandler(r, idx[r], cur[r])
    /\ UNCHANGED <<chain, live, store, raised, atDispatch>>

\* dispatcher.updateRepositoryMissing(repository, true) takes effect.
UpdateRepositoryMissingSettles(r) ==
    /\ status[r] = "awaitUpdate"
    /\ LET call == calls[r][Len(calls[r])]
       IN  missing' = [missing EXCEPT ![call.repository] = call.missing]
    /\ status' = [status EXCEPT ![r] = "updateSettled"]
    /\ UNCHANGED <<chain, live, selectedState, idx, cur, pending, raised,
                   atDispatch, calls, log, console>>

\* The missing-repository handler resumes after its await and returns null.
MissingRepositoryHandlerResumes(r) ==
    /\ status[r] = "updateSettled"
    /\ HandlerReturned(r, idx[r], cur[r], pending[r])
    /\ UNCHANGED <<chain, live, store, raised, atDispatch, calls, console>>

\* dispatcher.presentError(error) settles.
PresentErrorSettles(r) ==
    /\ status[r] = "awaitPresent"
    /\ status' = [status EXCEPT ![r] = "presentSettled"]
    /\ UNCHANGED <<chain, live, store, idx, cur, pending, raised, atDispatch,
                   calls, log, console>>

\* defaultErrorHandler resumes after its await and returns null.
DefaultErrorHandlerResumes(r) ==
    /\ status[r] = "presentSettled"
    /\ HandlerReturned(r, idx[r], cur[r], pending[r])
    /\ UNCHANGED <<chain, live, store, raised, atDispatch, calls, console>>

\* The user selects something else while errors are in flight.
SelectRepository(s) ==
    /\ \E r \in Runs : status[r] \notin {"idle", "done"}
    /\ s # selectedState
    /\ selectedState' = s
    /\ UNCHANGED <<chain, live, missing, status, idx, cur, pending, raised,
                   atDispatch, calls, log, console>>

Next ==
    \/ \E r \in Runs, error \in Errors : Dispatch(r, error)
    \/ \E r \in Runs : NextHandler(r)
    \/ \E r \in Runs : UpdateRepositoryMissingSettles(r)
    \/ \E r \in Runs : MissingRepositoryHandlerResumes(r)
    \/ \E r \in Runs : PresentErrorSettles(r)
    \/ \E r \in Runs : DefaultErrorHandlerResumes(r)
    \/ \E s \in SelectionStates : SelectRepository(s)

Spec == Init /\ [][Next]_vars

\* The errors raised in the concurrent and the fair specifications: one that
\* qualifies as missing by its code, one that qualifies by its gitError, one
\* no handler classifies, and one from a background task.
RaisedConcurrently ==
    { [class |-> "Error", code |-> RepositoryDoesNotExistErrorCode],
      [class |-> "GitError", code |-> NoCode, gitError |-> NotAGitRepository],
      [class |-> "Error", code |-> NoCode],
      [class |-> "ErrorWithMetadata", code |-> NoCode, backgroundTask |-> TRUE,
       underlyingError |-> [class |-> "Error", code |-> NoCode]] }

\* The steps of the runs themselves, the selection staying as it is.
NextRuns ==
    \/ \E r \in Runs, error \in RaisedConcurrently : Dispatch(r, error)
    \/ \E r \in Runs : NextHandler(r)
    \/ \E r \in Runs : UpdateRepositoryMissingSettles(r)
    \/ \E r \in Runs : MissingRepositoryHandlerResumes(r)
    \/ \E r \in Runs : PresentErrorSettles(r)
    \/ \E r \in Runs : DefaultErrorHandlerResumes(r)

\* Every run may be dispatched, through the documented chain, with no
\* synchronization between the runs.
InitConc ==
    /\ chain = DocumentedChain
    /\ live = Runs
    /\ InitStore
    /\ InitRuns

SpecConc == InitConc /\ [][NextRuns]_vars

\* The event loop resumes every continuation that is ready, and every
\* presentError and updateRepositoryMissing call settles.
Fairness ==
    \A r \in Runs :
        /\ WF_vars(NextHandler(r))
        /\ WF_vars(UpdateRepositoryMissingSettles(r))
        /\ WF_vars(MissingRepositoryHandlerResumes(r))
        /\ WF_vars(PresentErrorSettles(r))
        /\ WF_vars(DefaultErrorHandlerResumes(r))

\* One dispatch through any chain, under that scheduling.
SpecLive == Init /\ [][NextRuns]_vars /\ Fairness

(* ------------------------------------------------------------------ *)
(* Observations of a run                                               *)
(* ------------------------------------------------------------------ *)

Done(r) == status[r] = "done"

\* The presentError calls of a run, and their number.
PresentCalls(r) ==
    SelectSeq(calls[r], LAMBDA c : c.op = "presentError")

Presents(r) == Len(PresentCalls(r))

\* The updateRepositoryMissing calls of a run, and their number.
UpdateCalls(r) ==
    SelectSeq(calls[r], LAMBDA c : c.op = "updateRepositoryMissing")

Updates(r) == Len(UpdateCalls(r))

\* Some unit in front of the last one returned null.
ResolvedEarly(r) ==
    \E k \in 1..Len(log[r]) :
        log[r][k].output = Null /\ log[r][k].unit < Len(chain)

\* Some unit of the given kinds returned null.
ReturnedNull(r, kinds) ==
    \E k \in 1..Len(log[r]) :
        log[r][k].output = Null /\ chain[log[r][k].unit] \in kinds

TrackableSelections ==
    [type : {"Repository", "MissingRepository"}, repository : Repos]

\* The run was dispatched with a trackable repository selected that was
\* not flagged missing / that was flagged missing / with nothing trackable.
DispatchedOnHealthy(r) ==
    /\ atDispatch[r].selectedState \in TrackableSelections
    /\ ~atDispatch[r].flagged

DispatchedOnMissing(r) ==
    /\ atDispatch[r].selectedState \in TrackableSelections
    /\ atDispatch[r].flagged

DispatchedOnNothing(r) ==
    atDispatch[r].selectedState \notin TrackableSelections

HasDoesNotExistCode(error) == error.code = RepositoryDoesNotExistErrorCode

IsBackgroundTask(error) ==
    error.class = "ErrorWithMetadata" /\ error.backgroundTask

IsAuthenticationError(error) ==
    error.class = "GitError" /\ error.gitError \in AuthenticationErrors

\* The predicate of the missing-repository handler.
QualifiesAsMissing(error) ==
    \/ error.class = "GitError" /\ error.gitError = NotAGitRepository
    \/ HasDoesNotExistCode(error)

(* ------------------------------------------------------------------ *)
(* Properties                                                          *)
(* ------------------------------------------------------------------ *)

\* C1: a finished run of a chain ending in defaultErrorHandler has either
\* presented exactly once, with no earlier unit having returned null, or
\* had an earlier unit return null and presented nothing.
C1_ExactlyOneOutcome ==
    \A r \in Runs :
        Done(r) /\ chain[Len(chain)] = "default" =>
            \/ Presents(r) = 1 /\ ~ResolvedEarly(r)
            \/ Presents(r) = 0 /\ ResolvedEarly(r)

C1_Witness ==
    \E r \in Runs :
        /\ Done(r) /\ Len(chain) = MaxPrefix + 1
        /\ Presents(r) = 1 /\ ~ResolvedEarly(r)
        /\ Len(log[r]) = Len(chain)

\* C2: in a chain of the three classifying units followed by
\* defaultErrorHandler, a finished run in which neither the
\* missing-repository handler nor backgroundTaskHandler returned null has
\* presented exactly once.
C2_UnsuppressedPresentedOnce ==
    \A r \in Runs :
        Done(r) /\ ~ReturnedNull(r, {"missingRepository", "backgroundTask"})
            => Presents(r) = 1

C2_Witness ==
    \E r \in Runs :
        /\ Done(r)
        /\ chain = <<"gitAuthentication", "backgroundTask",
                     "missingRepository", "default">>
        /\ IsAuthenticationError(raised[r])
        /\ DispatchedOnHealthy(r)
        /\ Presents(r) = 1

\* C3: through the documented chain, an error carrying the does-not-exist
\* code, dispatched while a trackable repository not flagged missing is
\* selected, makes exactly one call, updateRepositoryMissing(that
\* repository, true), and never reaches the presenter.
C3_DoesNotExistMarksMissing ==
    \A r \in Runs :
        /\ Done(r) /\ chain = DocumentedChain
        /\ HasDoesNotExistCode(raised[r]) /\ DispatchedOnHealthy(r)
        => /\ calls[r] = <<UpdateCall(atDispatch[r].selectedState.repository)>>
           /\ Updates(r) = 1 /\ Presents(r) = 0

C3_Witness ==
    \E r \in Runs :
        /\ Done(r) /\ chain = DocumentedChain
        /\ raised[r] = [class |-> "Error",
                        code |-> RepositoryDoesNotExistErrorCode]
        /\ DispatchedOnHealthy(r)
        /\ Updates(r) = 1
        /\ missing[atDispatch[r].selectedState.repository]

\* C4: through the documented chain, any error dispatched while the selected
\* repository is already flagged missing is resolved by the
\* missing-repository handler at once, with no call to
\* updateRepositoryMissing and none to the presenter.
C4_AlreadyMissingSuppresses ==
    \A r \in Runs :
        /\ status[r] # "idle" /\ chain = DocumentedChain
        /\ DispatchedOnMissing(r)
        => /\ Done(r)
           /\ calls[r] = <<>>
           /\ log[r] = <<[unit |-> 1, input |-> raised[r], output |-> Null]>>

C4_Witness ==
    \E r \in Runs :
        /\ Done(r) /\ chain = DocumentedChain
        /\ DispatchedOnMissing(r)
        /\ HasDoesNotExistCode(raised[r])
        /\ calls[r] = <<>>

\* C5 as stated: through the documented chain, every error carrying the
\* does-not-exist code, dispatched with no trackable selection, makes no
\* updateRepositoryMissing call and reaches the presenter exactly once.
C5_Original ==
    \A r \in Runs :
        /\ Done(r) /\ chain = DocumentedChain
        /\ HasDoesNotExistCode(raised[r]) /\ DispatchedOnNothing(r)
        => Updates(r) = 0 /\ Presents(r) = 1

\* C5: through the documented chain, an error carrying the does-not-exist
\* code that is not a background-task ErrorWithMetadata, dispatched with no
\* trackable selection, leaves the missing-repository handler unchanged,
\* makes no updateRepositoryMissing call and is presented exactly once.
C5_NoSelectionPassesThrough ==
    \A r \in Runs :
        /\ Done(r) /\ chain = DocumentedChain
        /\ HasDoesNotExistCode(raised[r]) /\ DispatchedOnNothing(r)
        /\ ~IsBackgroundTask(raised[r])
        => /\ calls[r] = <<PresentCall(raised[r])>>
           /\ log[r][1] = [unit |-> 1, input |-> raised[r],
                           output |-> raised[r]]

C5_Witness ==
    \E r \in Runs :
        /\ Done(r) /\ chain = DocumentedChain
        /\ raised[r] = [class |-> "Error",
                        code |-> RepositoryDoesNotExistErrorCode]
        /\ atDispatch[r].selectedState = NoSelection
        /\ Presents(r) = 1 /\ Updates(r) = 0

\* C6: through the documented chain, an ErrorWithMetadata whose
\* metadata.backgroundTask is true is never presented, whatever it wraps and
\* whatever is selected.
C6_BackgroundTaskNeverPresented ==
    \A r \in Runs :
        chain = DocumentedChain /\ IsBackgroundTask(raised[r])
            => Presents(r) = 0

C6_Witness ==
    \E r \in Runs :
        /\ Done(r) /\ chain = DocumentedChain
        /\ IsBackgroundTask(raised[r])
        /\ ReturnedNull(r, {"backgroundTask"})
        /\ Presents(r) = 0

ResolvedAsMissing(r) ==
    \/ DispatchedOnMissing(r)
    \/ DispatchedOnHealthy(r) /\ QualifiesAsMissing(raised[r])

C8_Original ==
    \A r \in Runs :
        /\ Done(r) /\ chain = DocumentedChain
        /\ IsAuthenticationError(raised[r])
        => Presents(r) = 1

\* C8: through the documented chain, a GitError whose result.gitError is an
\* authentication error, and which the missing-repository handler does not
\* resolve, is logged by gitAuthenticationErrorHandler and presented exactly
\* once, unchanged.
C8_AuthenticationErrorPresented ==
    \A r \in Runs :
        /\ Done(r) /\ chain = DocumentedChain
        /\ IsAuthenticationError(raised[r])
        /\ ~ResolvedAsMissing(r)
        => /\ calls[r] = <<PresentCall(raised[r])>>
           /\ console[r] = <<raised[r].gitError>>

C8_Witness ==
    \E r \in Runs :
        /\ Done(r) /\ chain = DocumentedChain
        /\ IsAuthenticationError(raised[r])
        /\ DispatchedOnHealthy(r)
        /\ console[r] # <<>>
        /\ Presents(r) = 1

\* C9: for an error that is a background-task ErrorWithMetadata and also
\* qualifies as a missing-repository error, dispatched while a trackable
\* repository not flagged missing is selected, the documented chain ends
\* with one updateRepositoryMissing call and the repository flagged, while
\* the chain with its first two units swapped ends with no call and, when
\* nothing else has set it, the flag still clear; neither presents.
C9_OrderMatters ==
    \A r \in Runs :
        /\ Done(r)
        /\ IsBackgroundTask(raised[r]) /\ QualifiesAsMissing(raised[r])
        /\ DispatchedOnHealthy(r)
        => LET repo == atDispatch[r].selectedState.repository
           IN  /\ chain = DocumentedChain
                    => Updates(r) = 1 /\ Presents(r) = 0 /\ missing[repo]
               /\ chain = SwappedChain
                    => /\ Updates(r) = 0 /\ Presents(r) = 0
                       /\ (live = {r} => ~missing[repo])

C9_Witness ==
    \E r \in Runs :
        /\ Done(r) /\ chain = SwappedChain
        /\ IsBackgroundTask(raised[r]) /\ QualifiesAsMissing(raised[r])
        /\ DispatchedOnHealthy(r)
        /\ Updates(r) = 0
        /\ ~missing[atDispatch[r].selectedState.repository]

\* What the loop hands to the unit that follows the logged ones.
Carried(r) ==
    IF log[r] = <<>> THEN raised[r] ELSE log[r][Len(log[r])].output

\* The units of a run were invoked in list order from the first one, each on
\* the value the one before it returned, and none after a null.
InListOrder(r) ==
    /\ \A k \in 1..Len(log[r]) :
          /\ log[r][k].unit = k
          /\ log[r][k].input = IF k = 1 THEN raised[r]
                               ELSE log[r][k - 1].output
          /\ k < Len(log[r]) => log[r][k].output # Null
    /\ status[r] \notin {"idle", "done"} =>
          /\ idx[r] = Len(log[r]) + 1
          /\ cur[r] = Carried(r)
          /\ cur[r] # Null
    /\ Done(r) => Carried(r) = Null \/ Len(log[r]) = Len(chain)

\* A finished run does nothing more: no unit is invoked, no call is issued.
StaysFinished(r) ==
    Done(r) =>
        /\ status'[r] = "done"
        /\ log'[r] = log[r]
        /\ calls'[r] = calls[r]
        /\ console'[r] = console[r]

\* C10: the loop invokes the units in list order from the first one, hands
\* each unit the non-null value the previous one returned, and stops at the
\* first null: from then on the run invokes no unit and issues no call.
C10_ChainRunnerOrder ==
    /\ [](\A r \in Runs : InListOrder(r))
    /\ [][\A r \in Runs : StaysFinished(r)]_vars

C10_Witness ==
    \E r \in Runs :
        /\ Done(r) /\ Len(chain) = MaxPrefix + 1
        /\ Len(log[r]) = 2
        /\ log[r][1].output = raised[r]
        /\ log[r][2].output = Null
        /\ calls[r] = <<>>

\* The missing-repository handler is the first unit, so that what it reads
\* of the store is what the run saw when it was dispatched.
MissingRepositoryFirst == chain[1] = "missingRepository"

\* C11: invoked with a trackable repository selected that is not flagged
\* missing, the missing-repository handler calls
\* updateRepositoryMissing(that repository, true) and returns null exactly
\* when the error is a GitError with gitError NotAGitRepository or carries
\* the does-not-exist code; any other error it returns as it got it, with
\* no call.
C11_MissingPredicate ==
    \A r \in Runs :
        status[r] # "idle" /\ MissingRepositoryFirst /\ DispatchedOnHealthy(r)
        => LET repo == atDispatch[r].selectedState.repository
               qualifies ==
                   \/ /\ raised[r].class = "GitError"
                      /\ raised[r].gitError = NotAGitRepository
                   \/ raised[r].code = RepositoryDoesNotExistErrorCode
           IN  IF qualifies
               THEN /\ calls[r] = <<UpdateCall(repo)>>
                    /\ log[r] # <<>> =>
                          log[r] = <<[unit |-> 1, input |-> raised[r],
                                      output |-> Null]>>
               ELSE /\ log[r] # <<>>
                    /\ log[r][1] = [unit |-> 1, input |-> raised[r],
                                    output |-> raised[r]]
                    /\ Len(log[r]) = 1 => UpdateCalls(r) = <<>>

C11_Witness ==
    \E r \in Runs :
        /\ Done(r) /\ MissingRepositoryFirst /\ DispatchedOnHealthy(r)
        /\ raised[r] = [class |-> "GitError", code |-> NoCode,
                        gitError |-> NotAGitRepository]
        /\ calls[r] = <<UpdateCall(atDispatch[r].selectedState.repository)>>
        /\ log[r][1].output = Null

\* An error no handler classifies: not an ErrorWithMetadata, not a GitError,
\* and without the does-not-exist code.
Unclassified(error) ==
    /\ error.class = "Error"
    /\ error.code # RepositoryDoesNotExistErrorCode

\* A finished run of the documented chain on an unclassified error, not
\* dispatched on a repository flagged missing, made one call: presentError
\* with the error that was raised.
PresentedUntouched(r) ==
    /\ Done(r) /\ chain = DocumentedChain
    /\ Unclassified(raised[r]) /\ ~DispatchedOnMissing(r)
    => /\ calls[r] = <<PresentCall(raised[r])>>
       /\ \A k \in 1..Len(log[r]) : log[r][k].input = raised[r]
       /\ Len(log[r]) = Len(chain)

\* No step of such a run changes the store.
LeavesStoreAlone(r) ==
    /\ status'[r] # status[r] /\ chain = DocumentedChain
    /\ Unclassified(raised'[r]) /\ ~DispatchedOnMissing(r)'
    => store' = store

\* C12: through the documented chain, an unclassified error dispatched
\* while the selected repository is not flagged missing, or nothing
\* trackable is selected, reaches presentError as the very error that was
\* raised, with no updateRepositoryMissing call and the store unchanged.
C12_UnclassifiedFallsThrough ==
    /\ [](\A r \in Runs : PresentedUntouched(r))
    /\ [][\A r \in Runs : LeavesStoreAlone(r)]_vars

C12_Witness ==
    \E r \in Runs :
        /\ Done(r) /\ chain = DocumentedChain
        /\ raised[r] = [class |-> "Error", code |-> OtherCode]
        /\ DispatchedOnHealthy(r)
        /\ calls[r] = <<PresentCall(raised[r])>>
        /\ ~missing[atDispatch[r].selectedState.repository]

\* Every invocation of gitAuthenticationErrorHandler that has returned gave
\* back the error it was given.
AuthenticationReturnsInput(r) ==
    \A k \in 1..Len(log[r]) :
        chain[log[r][k].unit] = "gitAuthentication" =>
            /\ log[r][k].output = log[r][k].input
            /\ log[r][k].output # Null

\* The step in which gitAuthenticationErrorHandler runs issues no call and
\* leaves the store as it is.
AuthenticationMakesNoCall(r) ==
    /\ Len(log'[r]) = Len(log[r]) + 1
    /\ chain[log'[r][Len(log'[r])].unit] = "gitAuthentication"
    => calls'[r] = calls[r] /\ store' = store

\* C13: gitAuthenticationErrorHandler never resolves: whether or not the
\* error is a GitError, has a gitError, or has one in AuthenticationErrors,
\* it returns the error it received, never null and never another error,
\* and calls neither presentError nor updateRepositoryMissing.
C13_AuthenticationNeverResolves ==
    /\ [](\A r \in Runs : AuthenticationReturnsInput(r))
    /\ [][\A r \in Runs : AuthenticationMakesNoCall(r)]_vars

C13_Witness ==
    \E r \in Runs :
        /\ Done(r) /\ chain[1] = "gitAuthentication"
        /\ IsAuthenticationError(raised[r])
        /\ console[r] = <<raised[r].gitError>>
        /\ log[r][1] = [unit |-> 1, input |-> raised[r], output |-> raised[r]]
        /\ Presents(r) = 1

\* A unit of the run is suspended at an await.
Suspended(r) ==
    status[r] \in {"awaitUpdate", "updateSettled",
                   "awaitPresent", "presentSettled"}

\* While a unit is suspended every unit before it has returned, and once
\* the run is past an await, every updateRepositoryMissing call it issued
\* has taken effect.
OneUnitAtATime(r) ==
    /\ Suspended(r) => Len(log[r]) = idx[r] - 1
    /\ status[r] \in {"updateSettled", "ready", "done"} =>
          \A k \in 1..Len(calls[r]) :
              calls[r][k].op = "updateRepositoryMissing" =>
                  missing[calls[r][k].repository] = calls[r][k].missing

\* A unit starts, and so issues a call, only when no unit of the run is
\* suspended; a suspended unit returns only after its call has settled.
AwaitsBeforeGoingOn(r) ==
    /\ calls'[r] # calls[r] => status[r] \in {"idle", "ready"}
    /\ Suspended(r) /\ log'[r] # log[r] =>
          status[r] \in {"updateSettled", "presentSettled"}

\* C14: within a run the handler invocations never overlap: a unit starts
\* only after the one before it has settled, and the
\* updateRepositoryMissing call of the missing-repository handler has
\* completed before that handler returns null and before the run is done.
C14_NoOverlap ==
    /\ [](\A r \in Runs : OneUnitAtATime(r))
    /\ [][\A r \in Runs : AwaitsBeforeGoingOn(r)]_vars

C14_Witness ==
    \E r, q \in Runs :
        /\ r # q
        /\ Done(r) /\ Updates(r) = 1
        /\ log[r] = <<[unit |-> 1, input |-> raised[r], output |-> Null]>>
        /\ missing[UpdateCalls(r)[1].repository]
        /\ status[q] = "awaitPresent"

AllDone == \A r \in Runs : Done(r)

\* The number of updateRepositoryMissing calls of all runs together.
TotalUpdates ==
    Cardinality({<<r, k>> \in Runs \X (1..Len(chain)) : k <= Updates(r)})

\* Every run was dispatched on a qualifying error while the trackable
\* repository p was selected, and p was not flagged when the first of them
\* read the flag.
AllMissingOn(p) ==
    /\ \A r \in Runs :
          /\ QualifiesAsMissing(raised[r])
          /\ atDispatch[r].selectedState \in TrackableSelections
          /\ atDispatch[r].selectedState.repository = p
    /\ \E r \in Runs : ~atDispatch[r].flagged

\* When all those runs are done, p is flagged, nothing was presented, each
\* run that read the flag clear issued its own call for p and the others
\* none: between one call and one call per run.
ConcurrentOutcome ==
    \A p \in Repos :
        AllDone /\ AllMissingOn(p) =>
            /\ missing[p]
            /\ \A r \in Runs :
                  /\ Presents(r) = 0
                  /\ calls[r] = IF atDispatch[r].flagged
                                THEN <<>> ELSE <<UpdateCall(p)>>
            /\ TotalUpdates \in 1..NumRuns

\* An update that settles on a repository already flagged changes nothing:
\* the store is as the first update left it.
LaterUpdateIsNoOp(r) ==
    /\ status[r] = "awaitUpdate" /\ status'[r] = "updateSettled"
    /\ missing[calls[r][Len(calls[r])].repository]
    => store' = store

\* C15: runs for qualifying errors, executing concurrently against the same
\* selected repository that was not flagged when they began, all end with
\* that repository flagged and nothing presented; each run that read the
\* flag before an earlier update settled issues its own call (one to
\* NumRuns calls in all), and the store ends as a single run leaves it.
C15_ConcurrentMissing ==
    /\ []ConcurrentOutcome
    /\ [][\A r \in Runs : LaterUpdateIsNoOp(r)]_vars

C15_Witness ==
    /\ AllDone
    /\ \E p \in Repos : AllMissingOn(p) /\ missing[p]
    /\ \A r \in Runs : Updates(r) = 1
    /\ TotalUpdates = NumRuns

\* No unit of the chain has been invoked twice by the run.
EachHandlerAtMostOnce(r) ==
    /\ Len(log[r]) <= Len(chain)
    /\ \A j, k \in 1..Len(log[r]) : j # k => log[r][j].unit # log[r][k].unit

\* A run that has started is never taken back to its start, and one with a
\* call outstanding is not abandoned.
NeverCancelled(r) ==
    /\ status[r] # "idle" => status'[r] # "idle"
    /\ raised[r] # NoError => raised'[r] = raised[r]
    /\ status[r] = "awaitUpdate" => status'[r] \in {"awaitUpdate", "updateSettled"}
    /\ status[r] = "awaitPresent" =>
          status'[r] \in {"awaitPresent", "presentSettled"}

\* C16: given that every presentError and updateRepositoryMissing call
\* settles, a run through a chain ending in defaultErrorHandler that has
\* started eventually completes, having invoked each handler at most once,
\* without being cancelled or retried.
C16_RunTerminates ==
    /\ \A r \in Runs : (status[r] # "idle") ~> Done(r)
    /\ [](\A r \in Runs : EachHandlerAtMostOnce(r))
    /\ [][\A r \in Runs : NeverCancelled(r)]_vars

C16_Witness ==
    \E r \in Runs :
        /\ Done(r) /\ Len(chain) = MaxPrefix + 1
        /\ Len(log[r]) = Len(chain)
        /\ log[r][Len(chain)].output = Null
        /\ Presents(r) = 1

\* C17: a run of the documented chain has at most one side effect: its
\* updateRepositoryMissing calls and presentError calls together number at
\* most one, so it never both marks a repository and presents.
C17_AtMostOneSideEffect ==
    \A r \in Runs :
        chain = DocumentedChain =>
            /\ Updates(r) + Presents(r) <= 1
            /\ ~(Updates(r) > 0 /\ Presents(r) > 0)
            /\ Len(calls[r]) = Updates(r) + Presents(r)

C17_Witness ==
    \E r \in Runs :
        /\ Done(r) /\ chain = DocumentedChain
        /\ raised[r].class = "GitError" /\ raised[r].gitError = MergeConflicts
        /\ HasDoesNotExistCode(raised[r])
        /\ Updates(r) = 1 /\ Presents(r) = 0

\* Every updateRepositoryMissing call the handlers issued passes true.
OnlySetsFlag ==
    \A r \in Runs : \A k \in 1..Len(calls[r]) :
        calls[r][k].op = "updateRepositoryMissing" => calls[r][k].missing

\* A run dispatched while the selected repository was flagged missing was
\* resolved by the first unit at once, with no call.
SuppressedOnceFlagged ==
    \A r \in Runs :
        status[r] # "idle" /\ MissingRepositoryFirst /\ DispatchedOnMissing(r)
        => /\ Done(r)
           /\ calls[r] = <<>>
           /\ log[r][Len(log[r])].output = Null
           /\ missing[atDispatch[r].selectedState.repository]

\* No step clears a flag.
FlagStaysSet == \A p \in Repos : missing[p] => missing'[p]

\* C18: the handlers only ever set the missing flag: each
\* updateRepositoryMissing call passes true, so over any interleaving of
\* runs a repository once flagged stays flagged, and every error
\* dispatched from then on while it is selected is suppressed.
C18_FlagOnlySet ==
    /\ [](OnlySetsFlag /\ SuppressedOnceFlagged)
    /\ [][FlagStaysSet]_vars

C18_Witness ==
    \E r, q \in Runs :
        /\ r # q
        /\ Done(r) /\ ~atDispatch[r].flagged /\ Updates(r) = 1
        /\ Done(q) /\ DispatchedOnMissing(q)
        /\ atDispatch[q].selectedState = atDispatch[r].selectedState
        /\ Unclassified(raised[q])
        /\ calls[q] = <<>>

\* C19: whether the missing-repository handler suppresses is decided by
\* the flag of the selected repository alone: for a selection of kind
\* Repository and for one of kind MissingRepository alike, the flag set
\* makes it return null with no call, and the flag clear makes it classify
\* the error, calling updateRepositoryMissing or passing the error on.
C19_FlagNotKindDecides ==
    \A r \in Runs : \A kind \in {"Repository", "MissingRepository"} :
        /\ status[r] # "idle" /\ MissingRepositoryFirst
        /\ atDispatch[r].selectedState.type = kind
        => IF atDispatch[r].flagged
           THEN /\ calls[r] = <<>>
                /\ log[r] = <<[unit |-> 1, input |-> raised[r],
                               output |-> Null]>>
           ELSE IF QualifiesAsMissing(raised[r])
           THEN /\ calls[r] # <<>>
                /\ calls[r][1] =
                      UpdateCall(atDispatch[r].selectedState.repository)
           ELSE /\ log[r] # <<>>
                /\ log[r][1].output = raised[r]

C19_Witness ==
    \E r \in Runs :
        /\ Done(r) /\ MissingRepositoryFirst
        /\ atDispatch[r].selectedState.type = "MissingRepository"
        /\ ~atDispatch[r].flagged
        /\ QualifiesAsMissing(raised[r])
        /\ Updates(r) = 1
        /\ missing[atDispatch[r].selectedState.repository]

====
